---- MODULE Spec2Model ----
(***************************************************************************)
(* A model of connectordb's SqlStore (streamdb/datastream/sql.go): the     *)
(* store that keeps batches of datapoints in the table "datastream" and    *)
(* reads them back by index or by time.                                    *)
(*                                                                         *)
(* The table is a set of rows.  Every method of SqlStore is an action; a   *)
(* method that issues two statements (Append, and the "no row" branch of   *)
(* GetByIndex/GetByTime) is two steps, so that the statements of other     *)
(* callers can run in between, as they can on the database.                *)
(***************************************************************************)
EXTENDS Integers, Sequences, FiniteSets

\* ------------------------------------------------------------------ bounds
MaxLen == 2      \* longest DatapointArray a caller passes
MaxIndex == 3    \* no batch is written with an EndIndex above this
MaxRows == 2     \* the table never holds more rows than this

Procs == {"c1", "c2"}            \* the callers of the store
Times == {1, 3}                  \* the timestamps of datapoints
QueryTimes == 0..3               \* the starttime values handed to GetByTime
StartIndexes == (-1)..MaxIndex   \* the startindex values handed to Insert and GetByIndex

\* ----------------------------------------------------------- the SqlStore
\* The seven prepared statements, in the order prepareSqlStore prepares them.
StmtOrder == <<"inserter", "timequery", "indexquery", "endindex",
               "delsubstream", "delstream", "clearall">>
StmtNames == {StmtOrder[n] : n \in 1..Len(StmtOrder)}

\* SqlStore.insertversion, set by prepareSqlStore
insertversion == 2

VARIABLES
  stmts,   \* SqlStore's statement fields: "nil", "open" or "closed"
  store,   \* what prepareSqlStore returned: "none" yet, "open", "failed"; "closed" after Close
  table,   \* the rows of the datastream table
  pc,      \* per caller: "idle" or the method it is inside of
  frame,   \* per caller: the locals of the method it is inside of
  last     \* the call that returned last, with what it returned

vars == <<stmts, store, table, pc, frame, last>>

\* ------------------------------------------------------------ datapoints
\* A Datapoint; the store reads nothing of it but the Timestamp.
Datapoint(t) == [Timestamp |-> t]

RECURSIVE SeqsUpTo(_, _)
SeqsUpTo(S, n) ==
  IF n = 0 THEN {<<>>}
  ELSE LET shorter == SeqsUpTo(S, n - 1)
       IN  shorter \cup {Append(s, x) : s \in {q \in shorter : Len(q) = n - 1}, x \in S}

\* The DatapointArrays callers pass: at most MaxLen datapoints, with timestamps
\* of T, in timestamp order.
ArraysOver(T) ==
  {da \in SeqsUpTo({Datapoint(t) : t \in T}, MaxLen) :
     \A n \in 1..(Len(da) - 1) : da[n].Timestamp <= da[n + 1].Timestamp}

DatapointArrays == ArraysOver(Times)

Length(da) == Len(da)

\* DatapointArray.Encode: a length-prefixed list of timestamps, tagged with the version.
Encode(da, version) ==
  IF version # insertversion
    THEN [err |-> "EncodingError", bytes |-> <<>>]
    ELSE [err |-> "nil",
          bytes |-> <<version, Len(da)>> \o [n \in 1..Len(da) |-> da[n].Timestamp]]

\* DecodeDatapointArray: fails on an unknown version or a payload that does not
\* have the length it announces.
DecodeDatapointArray(data, version) ==
  IF \/ version # insertversion
     \/ Len(data) < 2
     \/ data[1] # version
     \/ data[2] # Len(data) - 2
    THEN [err |-> "EncodingError", da |-> <<>>]
    ELSE [err |-> "nil",
          da |-> [n \in 1..(Len(data) - 2) |-> Datapoint(data[n + 2])]]

\* DatapointArray.IRange(a, b): the datapoints at 0-based positions a .. b-1.
IRange(da, a, b) == SubSeq(da, a + 1, b)

\* DatapointArray.TStart: drops the datapoints before the time t.
TStart(da, t) ==
  LET keep == {n \in 1..Len(da) : da[n].Timestamp >= t}
  IN  IF keep = {} THEN <<>>
      ELSE SubSeq(da, CHOOSE n \in keep : \A m \in keep : n <= m, Len(da))

\* ------------------------------------------------------------ statements
\* What each prepared statement does to, or reads from, the table.

KeyRows(tbl, id, sub) == {r \in tbl : r.StreamId = id /\ r.Substream = sub}

SetMax(S) == CHOOSE x \in S : \A y \in S : y <= x

\* (a slip: MIN for MAX)
endindex_Min(tbl, id, sub) ==
  IF KeyRows(tbl, id, sub) = {} THEN 0
  ELSE CHOOSE x \in {r.EndIndex : r \in KeyRows(tbl, id, sub)} :
         \A y \in {r.EndIndex : r \in KeyRows(tbl, id, sub)} : x <= y

\* "SELECT COALESCE(MAX(EndIndex),0) ... WHERE StreamID=$1 AND Substream=$2"
endindex(tbl, id, sub) ==
  IF KeyRows(tbl, id, sub) = {} THEN 0
  ELSE SetMax({r.EndIndex : r \in KeyRows(tbl, id, sub)})

\* (a slip: a table without the UNIQUE / PRIMARY KEY constraint)
inserter_NoUnique(tbl, id, sub, endtime, ei, version, data) ==
  [err |-> "nil",
   tbl |-> tbl \cup {[StreamId |-> id, Substream |-> sub, EndTime |-> endtime,
                      EndIndex |-> ei, Version |-> version, Data |-> data]}]

\* "INSERT INTO datastream VALUES ($1,$2,$3,$4,$5,$6)": rejected when a row
\* with the same (StreamId, Substream, EndIndex) exists.
inserter(tbl, id, sub, endtime, ei, version, data) ==
  IF \E r \in KeyRows(tbl, id, sub) : r.EndIndex = ei
    THEN [err |-> "UniqueViolation", tbl |-> tbl]
    ELSE [err |-> "nil",
          tbl |-> tbl \cup {[StreamId |-> id, Substream |-> sub, EndTime |-> endtime,
                             EndIndex |-> ei, Version |-> version, Data |-> data]}]

\* (a slip: the substream is not compared)
delsubstream_AnySubstream(tbl, id, sub) == {r \in tbl : r.StreamId # id}

\* (a slip: >= for >)
indexquery_GE(tbl, id, sub, startindex) ==
  {r \in KeyRows(tbl, id, sub) : r.EndIndex >= startindex}

\* "... WHERE StreamID=$1 AND Substream=$2 AND EndIndex > $3 ORDER BY EndIndex ASC"
indexquery(tbl, id, sub, startindex) ==
  {r \in KeyRows(tbl, id, sub) : r.EndIndex > startindex}

\* (a slip: >= for >)
timequery_GE(tbl, id, sub, starttime) ==
  {r \in KeyRows(tbl, id, sub) : r.EndTime >= starttime}

\* "... WHERE StreamID=$1 AND Substream=$2 AND EndTime > $3 ORDER BY EndTime ASC"
timequery(tbl, id, sub, starttime) ==
  {r \in KeyRows(tbl, id, sub) : r.EndTime > starttime}

\* "DELETE FROM datastream WHERE StreamID=$1 AND Substream=$2"
delsubstream(tbl, id, sub) == tbl \ KeyRows(tbl, id, sub)

\* (a slip: the statement of DeleteSubstream, run for one substream only)
delstream_OneSubstream(tbl, id) == {r \in tbl : r.StreamId # id \/ r.Substream # "a"}

\* "DELETE FROM datastream WHERE StreamID=$1"
delstream(tbl, id) == {r \in tbl : r.StreamId # id}

\* "DELETE FROM datastream"
clearall(tbl) == {}

\* ------------------------------------------------------- construction, Close
\* (a slip: the earlier error is not looked at)
prepStatement_NoChain(refused, err) ==
  IF refused THEN [stmt |-> "nil", err |-> "PrepareError", called |-> TRUE]
  ELSE [stmt |-> "open", err |-> "nil", called |-> TRUE]

\* prepStatement: prepares nothing once an earlier step has failed. `refused`
\* says whether the driver refuses this statement; `called` records that
\* db.Prepare was called at all.
prepStatement(refused, err) ==
  IF err # "nil" THEN [stmt |-> "nil", err |-> err, called |-> FALSE]
  ELSE IF refused THEN [stmt |-> "nil", err |-> "PrepareError", called |-> TRUE]
  ELSE [stmt |-> "open", err |-> "nil", called |-> TRUE]

\* The chain of prepStatement calls of prepareSqlStore, over the first n statements.
RECURSIVE prepChain(_, _)
prepChain(n, fail) ==
  IF n = 0 THEN [st |-> [x \in {} |-> "nil"], err |-> "nil", called |-> {}]
  ELSE LET prev == prepChain(n - 1, fail)
           this == prepStatement(fail = StmtOrder[n], prev.err)
       IN  [st |-> [x \in {StmtOrder[m] : m \in 1..n} |->
                      IF x = StmtOrder[n] THEN this.stmt ELSE prev.st[x]],
            err |-> this.err,
            called |-> IF this.called THEN prev.called \cup {StmtOrder[n]} ELSE prev.called]

\* The statements Close releases.
CloseReleases == {"inserter", "timequery", "indexquery", "endindex", "delstream", "delsubstream"}

\* SqlStore.Close on the statement fields s: each one that is not nil is closed.
Close(s) ==
  [x \in StmtNames |-> IF x \in CloseReleases /\ s[x] # "nil" THEN "closed" ELSE s[x]]

\* prepareSqlStore: `fail` is the step the database refuses ("ping", a statement, or "none").
prepareSqlStore(fail) ==
  IF fail = "ping"
    THEN [ss |-> "nil", err |-> "ConnectivityError", called |-> {},
          stmts |-> [x \in StmtNames |-> "nil"]]
    ELSE LET c == prepChain(Len(StmtOrder), fail)
         IN  IF c.err # "nil"
               THEN [ss |-> "nil", err |-> c.err, called |-> c.called, stmts |-> Close(c.st)]
               ELSE [ss |-> "store", err |-> "nil", called |-> c.called, stmts |-> c.st]

NoFrame == [op |-> "none"]

Init ==
  /\ stmts = [x \in StmtNames |-> "nil"]
  /\ store = "none"
  /\ table = {}
  /\ pc = [p \in Procs |-> "idle"]
  /\ frame = [p \in Procs |-> NoFrame]
  /\ last = [op |-> "none"]

\* OpenSqlStore / OpenPostgresStore: prepareSqlStore with the seven statements.
OpenSqlStore(fail) ==
  /\ store \in {"none", "failed"}
  /\ LET r == prepareSqlStore(fail)
     IN  /\ stmts' = r.stmts
         /\ store' = IF r.ss = "nil" THEN "failed" ELSE "open"
         /\ last' = [op |-> "OpenSqlStore", fail |-> fail, ss |-> r.ss, err |-> r.err,
                     called |-> r.called]
  /\ UNCHANGED <<table, pc, frame>>

\* Close, by the owner of the store, once no call is in progress.
CloseCall ==
  /\ store \in {"open", "closed"}
  /\ \A p \in Procs : pc[p] = "idle"
  /\ stmts' = Close(stmts)
  /\ store' = "closed"
  /\ last' = [op |-> "Close", before |-> stmts]
  /\ UNCHANGED <<table, pc, frame>>

\* ------------------------------------------------------------ bookkeeping
\* Faults of the database while a statement runs or its rows are read: the
\* statement fails ("exec", "query"), the rows yield nothing ("norow") or fail
\* on the way ("iter"), rows.Scan fails before it has set endindex ("scan") or
\* after ("scandata"), the codec rejects the bytes it is handed ("decode").
ExecFaults == {"none", "exec"}
EndIndexFaults == {"none", "query", "norow", "scan"}
ReadFaults == {"none", "query", "iter", "scan", "scandata", "decode"}

\* The model's cap on the table: a row can be added for every Append in progress.
Room == Cardinality(table) + Cardinality({q \in Procs : pc[q] = "Append"}) < MaxRows

\* A call in progress notes what other callers do to the rows of its key:
\* dirty: they changed since the call's first statement ran; rivalOk: an Append
\* that overlaps this one wrote its batch; rivalSame: such an Append had read the
\* same end index, had a batch of the same length, and its row is still there.
Mark(fr, ev, rival) ==
  IF fr.op = "Append"
    THEN [fr EXCEPT !.dirty = TRUE,
                    !.rivalOk = fr.rivalOk \/ ev = "append",
                    !.rivalSame = CASE ev = "append" ->
                                         fr.rivalSame \/ (rival.i = fr.i /\ rival.n = Len(fr.dp))
                                    [] ev = "delete" -> FALSE
                                    [] OTHER -> fr.rivalSame]
    ELSE [fr EXCEPT !.dirty = TRUE]

\* The frame of caller q once a statement of another caller has changed the
\* rows of the keys K: a call in progress on one of these keys notes the event.
Seen(q, K, ev, rival) ==
  IF /\ frame[q].op \in {"Append", "GetByIndex", "GetByTime"}
     /\ <<frame[q].id, frame[q].sub>> \in K
    THEN Mark(frame[q], ev, rival)
    ELSE frame[q]

\* Caller p returns; the calls in progress on the keys K see the event.
Returns(p, K, ev, rival) ==
  /\ pc' = [pc EXCEPT ![p] = "idle"]
  /\ frame' = [q \in Procs |-> IF q = p THEN NoFrame ELSE Seen(q, K, ev, rival)]

NoRival == [i |-> 0, n |-> 0]

\* ------------------------------------------------------------------ writes
\* SqlStore.Clear
Clear(tbl, f) ==
  IF f = "exec" THEN [err |-> "ExecError", tbl |-> tbl]
  ELSE [err |-> "nil", tbl |-> clearall(tbl)]

\* SqlStore.DeleteStream
DeleteStream(tbl, id, f) ==
  IF f = "exec" THEN [err |-> "ExecError", tbl |-> tbl]
  ELSE [err |-> "nil", tbl |-> delstream(tbl, id)]

\* SqlStore.DeleteSubstream
DeleteSubstream(tbl, id, sub, f) ==
  IF f = "exec" THEN [err |-> "ExecError", tbl |-> tbl]
  ELSE [err |-> "nil", tbl |-> delsubstream(tbl, id, sub)]

\* (a slip: the row is never scanned into ei)
GetEndIndex_NoScan(tbl, id, sub, f) ==
  CASE f = "query" -> [ei |-> 0, err |-> "QueryError"]
    [] f = "norow" -> [ei |-> 0, err |-> "ErrWTF"]
    [] f = "scan"  -> [ei |-> 0, err |-> "ScanError"]
    [] OTHER       -> [ei |-> 0, err |-> "nil"]

\* (a slip: a statement without the aggregate, which yields no row for a key
\* without rows)
GetEndIndex_NoAggregate(tbl, id, sub, f) ==
  CASE f = "query" -> [ei |-> 0, err |-> "QueryError"]
    [] f = "norow" \/ KeyRows(tbl, id, sub) = {} -> [ei |-> 0, err |-> "ErrWTF"]
    [] f = "scan"  -> [ei |-> 0, err |-> "ScanError"]
    [] OTHER       -> [ei |-> endindex(tbl, id, sub), err |-> "nil"]

\* SqlStore.GetEndIndex
GetEndIndex(tbl, id, sub, f) ==
  CASE f = "query" -> [ei |-> 0, err |-> "QueryError"]
    [] f = "norow" -> [ei |-> 0, err |-> "ErrWTF"]
    [] f = "scan"  -> [ei |-> 0, err |-> "ScanError"]
    [] OTHER       -> [ei |-> endindex(tbl, id, sub), err |-> "nil"]

\* (a slip: the index of the last datapoint for the EndIndex)
Insert_LastIndex(tbl, id, sub, startindex, da, f) ==
  LET enc == Encode(da, insertversion)
  IN  IF enc.err # "nil" THEN [err |-> enc.err, tbl |-> tbl]
      ELSE IF Len(da) = 0 THEN [err |-> "panic", tbl |-> tbl]
      ELSE IF f = "exec" THEN [err |-> "ExecError", tbl |-> tbl]
      ELSE inserter(tbl, id, sub, da[Len(da)].Timestamp, startindex + Length(da) - 1,
                    insertversion, enc.bytes)

\* (a slip: an empty array is written, with the EndTime 0)
Insert_EmptyIsWritten(tbl, id, sub, startindex, da, f) ==
  LET enc == Encode(da, insertversion)
  IN  IF enc.err # "nil" THEN [err |-> enc.err, tbl |-> tbl]
      ELSE IF f = "exec" THEN [err |-> "ExecError", tbl |-> tbl]
      ELSE inserter(tbl, id, sub, IF Len(da) = 0 THEN 0 ELSE da[Len(da)].Timestamp,
                    startindex + Length(da), insertversion, enc.bytes)

\* SqlStore.Insert: an empty array panics at da[len(da)-1], after Encode.
Insert(tbl, id, sub, startindex, da, f) ==
  LET enc == Encode(da, insertversion)
  IN  IF enc.err # "nil" THEN [err |-> enc.err, tbl |-> tbl]
      ELSE IF Len(da) = 0 THEN [err |-> "panic", tbl |-> tbl]
      ELSE IF f = "exec" THEN [err |-> "ExecError", tbl |-> tbl]
      ELSE inserter(tbl, id, sub, da[Len(da)].Timestamp, startindex + Length(da),
                    insertversion, enc.bytes)

\* The keys whose rows differ between two tables.
Changed(old, new) == {<<r.StreamId, r.Substream>> : r \in (old \ new) \cup (new \ old)}

ClearCall(p, f) ==
  /\ store = "open" /\ pc[p] = "idle"
  /\ LET r == Clear(table, f)
     IN  /\ table' = r.tbl
         /\ last' = [op |-> "Clear", err |-> r.err, removed |-> Changed(table, r.tbl)]
         /\ Returns(p, Changed(table, r.tbl), "delete", NoRival)
  /\ UNCHANGED <<stmts, store>>

DeleteStreamCall(p, id, f) ==
  /\ store = "open" /\ pc[p] = "idle"
  /\ LET r == DeleteStream(table, id, f)
     IN  /\ table' = r.tbl
         /\ last' = [op |-> "DeleteStream", id |-> id, err |-> r.err,
                     removed |-> Changed(table, r.tbl)]
         /\ Returns(p, Changed(table, r.tbl), "delete", NoRival)
  /\ UNCHANGED <<stmts, store>>

DeleteSubstreamCall(p, id, sub, f) ==
  /\ store = "open" /\ pc[p] = "idle"
  /\ LET r == DeleteSubstream(table, id, sub, f)
     IN  /\ table' = r.tbl
         /\ last' = [op |-> "DeleteSubstream", id |-> id, sub |-> sub, err |-> r.err,
                     removed |-> Changed(table, r.tbl)]
         /\ Returns(p, Changed(table, r.tbl), "delete", NoRival)
  /\ UNCHANGED <<stmts, store>>

InsertCall(p, id, sub, startindex, da, f) ==
  /\ store = "open" /\ pc[p] = "idle"
  /\ Room /\ startindex + Len(da) <= MaxIndex
  /\ LET r == Insert(table, id, sub, startindex, da, f)
     IN  /\ table' = r.tbl
         /\ last' = [op |-> "Insert", id |-> id, sub |-> sub, startindex |-> startindex,
                     da |-> da, err |-> r.err, before |-> endindex(table, id, sub), fault |-> f]
         /\ Returns(p, Changed(table, r.tbl), "insert", NoRival)
  /\ UNCHANGED <<stmts, store>>

\* A Batch, as WriteBatches reads it: the stream it names, Substream,
\* StartIndex, Data. GetStreamID turns the name of the stream into its id and
\* fails on a name that is not one.
StreamIDs == [s \in {"1", "2"} |-> IF s = "1" THEN 1 ELSE 2]

Batch(stream, sub, startindex, data) ==
  [Stream |-> stream, Substream |-> sub, StartIndex |-> startindex, Data |-> data]

GetStreamID(b) ==
  IF b.Stream \in DOMAIN StreamIDs THEN [id |-> StreamIDs[b.Stream], err |-> "nil"]
  ELSE [id |-> 0, err |-> "StreamIDError"]

\* The body of the loop of WriteBatches for one batch.
WriteBatch(tbl, b, f) ==
  LET sid == GetStreamID(b)
  IN  IF sid.err # "nil" THEN [err |-> sid.err, tbl |-> tbl]
      ELSE Insert(tbl, sid.id, b.Substream, b.StartIndex, b.Data, f)

\* WriteBatches is called: with nothing to write it returns nil at once. `log`
\* is what the loop has got from each batch so far, `before` the table at the call.
WriteBatchesCall(p, b) ==
  /\ store = "open" /\ pc[p] = "idle"
  /\ Cardinality(table) + Cardinality({q \in Procs : pc[q] = "Append"}) + Len(b) <= MaxRows
  /\ IF Len(b) = 0
       THEN /\ last' = [op |-> "WriteBatches", b |-> b, err |-> "nil", log |-> <<>>,
                        before |-> table]
            /\ UNCHANGED <<pc, frame>>
       ELSE /\ pc' = [pc EXCEPT ![p] = "WriteBatches"]
            /\ frame' = [frame EXCEPT ![p] = [op |-> "WriteBatches", b |-> b, i |-> 0,
                                              log |-> <<>>, before |-> table]]
            /\ UNCHANGED last
  /\ UNCHANGED <<stmts, store, table>>

\* (a slip: the loop goes on after a batch has failed)
WriteBatches_GoesOn(p, f) ==
  /\ store = "open" /\ pc[p] = "WriteBatches"
  /\ LET fr == frame[p]
         r == WriteBatch(table, fr.b[fr.i + 1], f)
         log == Append(fr.log, r.err)
     IN  /\ table' = r.tbl
         /\ IF fr.i + 1 = Len(fr.b)
              THEN /\ last' = [op |-> "WriteBatches", b |-> fr.b, err |-> r.err, log |-> log,
                               before |-> fr.before]
                   /\ Returns(p, Changed(table, r.tbl), "insert", NoRival)
              ELSE /\ pc' = pc
                   /\ frame' = [q \in Procs |->
                                  IF q = p THEN [fr EXCEPT !.i = fr.i + 1, !.log = log]
                                  ELSE Seen(q, Changed(table, r.tbl), "insert", NoRival)]
                   /\ UNCHANGED last
  /\ UNCHANGED <<stmts, store>>

\* WriteBatches, one round of its loop: batch b[i] is written; an error returns
\* at once, the last batch returns nil.
WriteBatches(p, f) ==
  /\ store = "open" /\ pc[p] = "WriteBatches"
  /\ LET fr == frame[p]
         r == WriteBatch(table, fr.b[fr.i + 1], f)
         log == Append(fr.log, r.err)
     IN  /\ table' = r.tbl
         /\ IF r.err # "nil" \/ fr.i + 1 = Len(fr.b)
              THEN /\ last' = [op |-> "WriteBatches", b |-> fr.b, err |-> r.err, log |-> log,
                               before |-> fr.before]
                   /\ Returns(p, Changed(table, r.tbl), "insert", NoRival)
              ELSE /\ pc' = pc
                   /\ frame' = [q \in Procs |->
                                  IF q = p THEN [fr EXCEPT !.i = fr.i + 1, !.log = log]
                                  ELSE Seen(q, Changed(table, r.tbl), "insert", NoRival)]
                   /\ UNCHANGED last
  /\ UNCHANGED <<stmts, store>>

\* Append, first statement: GetEndIndex. An error returns at once.
AppendGetEndIndex(p, id, sub, dp, f) ==
  /\ store = "open" /\ pc[p] = "idle"
  /\ Room
  /\ LET g == GetEndIndex(table, id, sub, f)
     IN  /\ g.ei + Len(dp) <= MaxIndex
         /\ IF g.err # "nil"
              THEN /\ last' = [op |-> "Append", id |-> id, sub |-> sub, dp |-> dp, i |-> g.ei,
                               err |-> g.err, dirty |-> FALSE, rivalOk |-> FALSE,
                               rivalSame |-> FALSE, fault |-> f]
                   /\ UNCHANGED <<pc, frame>>
              ELSE /\ pc' = [pc EXCEPT ![p] = "Append"]
                   /\ frame' = [frame EXCEPT ![p] =
                                  [op |-> "Append", id |-> id, sub |-> sub, dp |-> dp,
                                   i |-> g.ei, dirty |-> FALSE, rivalOk |-> FALSE,
                                   rivalSame |-> FALSE]]
                   /\ UNCHANGED last
  /\ UNCHANGED <<stmts, store, table>>

\* Append, second statement: Insert at the index read.
AppendInsert(p, f) ==
  /\ store = "open" /\ pc[p] = "Append"
  /\ LET fr == frame[p]
         r == Insert(table, fr.id, fr.sub, fr.i, fr.dp, f)
     IN  /\ table' = r.tbl
         /\ last' = [op |-> "Append", id |-> fr.id, sub |-> fr.sub, dp |-> fr.dp, i |-> fr.i,
                     err |-> r.err, dirty |-> fr.dirty, rivalOk |-> fr.rivalOk,
                     rivalSame |-> fr.rivalSame, fault |-> f]
         /\ Returns(p, Changed(table, r.tbl), "append", [i |-> fr.i, n |-> Len(fr.dp)])
  /\ UNCHANGED <<stmts, store>>

\* A caller that wants its array appended and runs Append again, with the same
\* array, whenever Append has returned an error: "idle" before its first call,
\* "RetryAppend" between the GetEndIndex and the Insert of a call, "retry" after a
\* call that failed, "done" after the call that succeeded. `again` says that the
\* call is not its first.

\* (a slip: the call that is run again inserts at the index read by the first)
RetryAppendGetEndIndex_NoReread(p, id, sub, dp) ==
  /\ store = "open"
  /\ \/ pc[p] = "idle" /\ Len(dp) > 0
     \/ pc[p] = "retry" /\ dp = frame[p].dp /\ id = frame[p].id /\ sub = frame[p].sub
  /\ LET g == GetEndIndex(table, id, sub, "none")
         again == (pc[p] = "retry")
         fr == [op |-> "RetryAppend", id |-> id, sub |-> sub, dp |-> dp,
                i |-> IF pc[p] = "retry" THEN frame[p].i ELSE g.ei, again |-> again]
     IN  IF g.err # "nil"
           THEN /\ pc' = [pc EXCEPT ![p] = "retry"]
                /\ frame' = [frame EXCEPT ![p] = [fr EXCEPT !.op = "retry"]]
           ELSE /\ pc' = [pc EXCEPT ![p] = "RetryAppend"]
                /\ frame' = [frame EXCEPT ![p] = fr]
  /\ UNCHANGED <<stmts, store, table, last>>

\* Append, called for the first time or again: GetEndIndex.
RetryAppendGetEndIndex(p, id, sub, dp) ==
  /\ store = "open"
  /\ \/ pc[p] = "idle" /\ Len(dp) > 0
     \/ pc[p] = "retry" /\ dp = frame[p].dp /\ id = frame[p].id /\ sub = frame[p].sub
  /\ LET g == GetEndIndex(table, id, sub, "none")
         again == (pc[p] = "retry")
         fr == [op |-> "RetryAppend", id |-> id, sub |-> sub, dp |-> dp,
                i |-> g.ei, again |-> again]
     IN  IF g.err # "nil"
           THEN /\ pc' = [pc EXCEPT ![p] = "retry"]
                /\ frame' = [frame EXCEPT ![p] = [fr EXCEPT !.op = "retry"]]
           ELSE /\ pc' = [pc EXCEPT ![p] = "RetryAppend"]
                /\ frame' = [frame EXCEPT ![p] = fr]
  /\ UNCHANGED <<stmts, store, table, last>>

\* Append of such a caller: Insert at the index read; an error sends the caller
\* back to call Append again.
RetryAppendInsert(p) ==
  /\ store = "open" /\ pc[p] = "RetryAppend"
  /\ LET fr == frame[p]
         r == Insert(table, fr.id, fr.sub, fr.i, fr.dp, "none")
     IN  /\ table' = r.tbl
         /\ last' = [op |-> "RetryAppend", id |-> fr.id, sub |-> fr.sub, dp |-> fr.dp,
                     i |-> fr.i, err |-> r.err, again |-> fr.again]
         /\ pc' = [pc EXCEPT ![p] = IF r.err = "nil" THEN "done" ELSE "retry"]
         /\ frame' = [frame EXCEPT ![p] =
                        [fr EXCEPT !.op = IF r.err = "nil" THEN "done" ELSE "retry"]]
  /\ UNCHANGED <<stmts, store>>

\* ------------------------------------------------------------------- reads
Deletes == {"Clear", "DeleteStream", "DeleteSubstream"}

\* GetEndIndex called on its own; `after` names the delete, if the call before
\* this one was a delete that removed the rows of the key.
GetEndIndexCall(p, id, sub, f) ==
  /\ store = "open" /\ pc[p] = "idle"
  /\ LET g == GetEndIndex(table, id, sub, f)
     IN  last' = [op |-> "GetEndIndex", id |-> id, sub |-> sub, ei |-> g.ei, err |-> g.err,
                  fault |-> f,
                  after |-> IF last.op \in Deletes /\ <<id, sub>> \in last.removed
                              THEN last.op ELSE "none"]
  /\ UNCHANGED <<stmts, store, table, pc, frame>>

\* The row rows.Next() yields first, for "ORDER BY EndIndex ASC" ...
FirstByIndex(rows) == {r \in rows : \A o \in rows : r.EndIndex <= o.EndIndex}
\* ... and for "ORDER BY EndTime ASC" (rows of equal EndTime come in any order)
FirstByTime(rows) == {r \in rows : \A o \in rows : r.EndTime <= o.EndTime}

\* What a read returns: the DataRange (with the array it holds decoded), the
\* index, the error, and what became of the query's rows: "closed", kept by the
\* "range", or left "open"; `scanned` holds the row rows.Scan read, if any.
Result(dr, da, index, err, rows, scanned) ==
  [dr |-> dr, da |-> da, index |-> index, err |-> err, rows |-> rows, scanned |-> scanned]

\* (a slip: the length of the array is not compared with the EndIndex)
GetByIndexRow_NoCheck(row, startindex, f) ==
  LET endindex_ == row.EndIndex
      dec == IF f = "decode" THEN [err |-> "EncodingError", da |-> <<>>]
             ELSE DecodeDatapointArray(row.Data, row.Version)
      fromend == endindex_ - startindex
      da == IF fromend < Length(dec.da)
              THEN IRange(dec.da, Length(dec.da) - fromend, Length(dec.da))
              ELSE dec.da
  IN  CASE f = "scan"     -> Result("EmptyRange", <<>>, 0, "ScanError", "open", {})
        [] f = "scandata" -> Result("EmptyRange", <<>>, endindex_, "ScanError", "open", {})
        [] dec.err # "nil" -> Result("EmptyRange", <<>>, endindex_, dec.err, "closed", {row})
        [] OTHER -> Result("SqlRange", da, endindex_ - Length(da), "nil", "range", {row})

\* (a slip: the first `fromend` datapoints for the last)
GetByIndexRow_Head(row, startindex, f) ==
  LET endindex_ == row.EndIndex
      dec == IF f = "decode" THEN [err |-> "EncodingError", da |-> <<>>]
             ELSE DecodeDatapointArray(row.Data, row.Version)
      fromend == endindex_ - startindex
      da == IF fromend < Length(dec.da)
              THEN IRange(dec.da, 0, fromend)
              ELSE dec.da
  IN  CASE f = "scan"     -> Result("EmptyRange", <<>>, 0, "ScanError", "open", {})
        [] f = "scandata" -> Result("EmptyRange", <<>>, endindex_, "ScanError", "open", {})
        [] dec.err # "nil" -> Result("EmptyRange", <<>>, endindex_, dec.err, "closed", {row})
        [] Length(dec.da) > endindex_ ->
             Result("EmptyRange", <<>>, endindex_, "ErrorDatabaseCorrupted", "closed", {row})
        [] OTHER -> Result("SqlRange", da, endindex_ - Length(da), "nil", "range", {row})

\* GetByIndex once rows.Next() has yielded `row` (the code after "There is some data!").
GetByIndexRow(row, startindex, f) ==
  LET endindex_ == row.EndIndex
      dec == IF f = "decode" THEN [err |-> "EncodingError", da |-> <<>>]
             ELSE DecodeDatapointArray(row.Data, row.Version)
      fromend == endindex_ - startindex
      da == IF fromend < Length(dec.da)
              THEN IRange(dec.da, Length(dec.da) - fromend, Length(dec.da))
              ELSE dec.da
  IN  CASE f = "scan"     -> Result("EmptyRange", <<>>, 0, "ScanError", "open", {})
        [] f = "scandata" -> Result("EmptyRange", <<>>, endindex_, "ScanError", "open", {})
        [] dec.err # "nil" -> Result("EmptyRange", <<>>, endindex_, dec.err, "closed", {row})
        [] Length(dec.da) > endindex_ ->
             Result("EmptyRange", <<>>, endindex_, "ErrorDatabaseCorrupted", "closed", {row})
        [] OTHER -> Result("SqlRange", da, endindex_ - Length(da), "nil", "range", {row})

\* GetByTime once rows.Next() has yielded `row`.
GetByTimeRow(row, starttime, f) ==
  LET endindex_ == row.EndIndex
      dec == IF f = "decode" THEN [err |-> "EncodingError", da |-> <<>>]
             ELSE DecodeDatapointArray(row.Data, row.Version)
      da == TStart(dec.da, starttime)
  IN  CASE f = "scan"     -> Result("EmptyRange", <<>>, 0, "ScanError", "open", {})
        [] f = "scandata" -> Result("EmptyRange", <<>>, endindex_, "ScanError", "open", {})
        [] dec.err # "nil" -> Result("EmptyRange", <<>>, endindex_, dec.err, "closed", {row})
        [] Length(da) > endindex_ ->
             Result("EmptyRange", <<>>, endindex_, "ErrorDatabaseCorrupted", "closed", {row})
        [] OTHER -> Result("SqlRange", da, endindex_ - Length(da), "nil", "range", {row})

\* A read returns res to caller p.
ReadReturns(p, op, id, sub, arg, res, dirty, f) ==
  /\ last' = [op |-> op, id |-> id, sub |-> sub, arg |-> arg, dr |-> res.dr, da |-> res.da,
              index |-> res.index, err |-> res.err, rows |-> res.rows,
              scanned |-> res.scanned, dirty |-> dirty,
              fault |-> f]
  /\ Returns(p, {}, "read", NoRival)

\* A read finds no row (or rows.Next() fails): its next statement is GetEndIndex.
ReadGoesOn(p, op, id, sub, arg, f) ==
  /\ pc' = [pc EXCEPT ![p] = op]
  /\ frame' = [frame EXCEPT ![p] = [op |-> op, id |-> id, sub |-> sub, arg |-> arg,
                                    iterErr |-> (f = "iter"), dirty |-> FALSE]]
  /\ UNCHANGED last

\* GetByIndex, up to its return or to the call of GetEndIndex.
GetByIndex(p, id, sub, startindex, f) ==
  /\ store = "open" /\ pc[p] = "idle"
  /\ LET rows == indexquery(table, id, sub, startindex)
     IN  IF f = "query"
           THEN ReadReturns(p, "GetByIndex", id, sub, startindex,
                            Result("nil", <<>>, 0, "QueryError", "closed", {}), FALSE, f)
         ELSE IF rows = {} \/ f = "iter"
           THEN ReadGoesOn(p, "GetByIndex", id, sub, startindex, f)
         ELSE \E row \in FirstByIndex(rows) :
                ReadReturns(p, "GetByIndex", id, sub, startindex,
                            GetByIndexRow(row, startindex, f), FALSE, f)
  /\ UNCHANGED <<stmts, store, table>>

\* GetByTime, up to its return or to the call of GetEndIndex.
GetByTime(p, id, sub, starttime, f) ==
  /\ store = "open" /\ pc[p] = "idle"
  /\ LET rows == timequery(table, id, sub, starttime)
     IN  IF f = "query"
           THEN ReadReturns(p, "GetByTime", id, sub, starttime,
                            Result("nil", <<>>, 0, "QueryError", "closed", {}), FALSE, f)
         ELSE IF rows = {} \/ f = "iter"
           THEN ReadGoesOn(p, "GetByTime", id, sub, starttime, f)
         ELSE \E row \in FirstByTime(rows) :
                ReadReturns(p, "GetByTime", id, sub, starttime,
                            GetByTimeRow(row, starttime, f), FALSE, f)
  /\ UNCHANGED <<stmts, store, table>>

\* (a slip: the index is left at 0 instead of asking GetEndIndex)
ReadGetEndIndex_Zero(p, f) ==
  /\ store = "open" /\ pc[p] \in {"GetByIndex", "GetByTime"}
  /\ LET fr == frame[p]
     IN  ReadReturns(p, fr.op, fr.id, fr.sub, fr.arg,
                     Result("EmptyRange", <<>>, 0,
                            IF fr.iterErr THEN "IterError" ELSE "nil", "closed", {}),
                     fr.dirty, IF fr.iterErr THEN "iter" ELSE f)
  /\ UNCHANGED <<stmts, store, table>>

\* (a slip: rows.Err() is not looked at)
ReadGetEndIndex_NoRowsErr(p, f) ==
  /\ store = "open" /\ pc[p] \in {"GetByIndex", "GetByTime"}
  /\ LET fr == frame[p]
         g == GetEndIndex(table, fr.id, fr.sub, f)
     IN  ReadReturns(p, fr.op, fr.id, fr.sub, fr.arg,
                     Result("EmptyRange", <<>>, g.ei, g.err, "closed", {}),
                     fr.dirty, IF fr.iterErr THEN "iter" ELSE f)
  /\ UNCHANGED <<stmts, store, table>>

\* The "no data to read" branch of GetByIndex and GetByTime: GetEndIndex, then
\* rows.Err() replaces its error, rows.Close(), return EmptyRange.
ReadGetEndIndex(p, f) ==
  /\ store = "open" /\ pc[p] \in {"GetByIndex", "GetByTime"}
  /\ LET fr == frame[p]
         g == GetEndIndex(table, fr.id, fr.sub, f)
     IN  ReadReturns(p, fr.op, fr.id, fr.sub, fr.arg,
                     Result("EmptyRange", <<>>, g.ei,
                            IF fr.iterErr THEN "IterError" ELSE g.err, "closed", {}),
                     fr.dirty, IF fr.iterErr THEN "iter" ELSE f)
  /\ UNCHANGED <<stmts, store, table>>

\* --------------------------------------------------------- specifications
OpenFails == {"none", "ping"} \cup StmtNames

\* Spec: one caller uses the whole store on one key, with arrays of every
\* content and any startindex.
Caller == "c1"
Key == <<1, "a">>

Next ==
  \/ \E fail \in OpenFails : OpenSqlStore(fail)
  \/ CloseCall
  \/ ClearCall(Caller, "none")
  \/ DeleteStreamCall(Caller, Key[1], "none")
  \/ DeleteSubstreamCall(Caller, Key[1], Key[2], "none")
  \/ \E si \in StartIndexes, da \in DatapointArrays : InsertCall(Caller, Key[1], Key[2], si, da, "none")
  \/ \E dp \in DatapointArrays : AppendGetEndIndex(Caller, Key[1], Key[2], dp, "none")
  \/ AppendInsert(Caller, "none")
  \/ GetEndIndexCall(Caller, Key[1], Key[2], "none")
  \/ \E si \in StartIndexes : GetByIndex(Caller, Key[1], Key[2], si, "none")
  \/ \E t \in QueryTimes : GetByTime(Caller, Key[1], Key[2], t, "none")
  \/ ReadGetEndIndex(Caller, "none")

Spec == Init /\ [][Next]_vars

\* SpecRace: two callers on the keys of one stream; what the arrays hold does
\* not matter to a race, so every datapoint has the timestamp 1.
RaceKeys == {<<1, "a">>, <<1, "b">>}
RaceArrays == ArraysOver({1})
RaceTimes == {0, 1}
RaceIndexes == {0, 1}

NextRace ==
  \/ OpenSqlStore("none")
  \/ \E p \in Procs : ClearCall(p, "none")
  \/ \E p \in Procs, k \in RaceKeys : DeleteStreamCall(p, k[1], "none")
  \/ \E p \in Procs, k \in RaceKeys : DeleteSubstreamCall(p, k[1], k[2], "none")
  \/ \E p \in Procs, k \in RaceKeys, dp \in RaceArrays : AppendGetEndIndex(p, k[1], k[2], dp, "none")
  \/ \E p \in Procs : AppendInsert(p, "none")
  \/ \E p \in Procs, k \in RaceKeys, si \in RaceIndexes : GetByIndex(p, k[1], k[2], si, "none")
  \/ \E p \in Procs, k \in RaceKeys, t \in RaceTimes : GetByTime(p, k[1], k[2], t, "none")
  \/ \E p \in Procs : ReadGetEndIndex(p, "none")

SpecRace == Init /\ [][NextRace]_vars

\* SpecKeys: two callers write to and delete the keys of two streams.
ManyKeys == {<<1, "a">>, <<1, "b">>, <<2, "a">>}
KeysIndexes == {0, 1}
KeysArrays == {<<Datapoint(1)>>}   \* which key a batch lands on does not depend on its content

NextKeys ==
  \/ OpenSqlStore("none")
  \/ \E p \in Procs : ClearCall(p, "none")
  \/ \E p \in Procs, k \in ManyKeys : DeleteStreamCall(p, k[1], "none")
  \/ \E p \in Procs, k \in ManyKeys : DeleteSubstreamCall(p, k[1], k[2], "none")
  \/ \E p \in Procs, k \in ManyKeys, si \in KeysIndexes, da \in KeysArrays :
       InsertCall(p, k[1], k[2], si, da, "none")
  \/ \E p \in Procs, k \in ManyKeys, dp \in KeysArrays : AppendGetEndIndex(p, k[1], k[2], dp, "none")
  \/ \E p \in Procs : AppendInsert(p, "none")
  \/ \E p \in Procs, k \in ManyKeys : GetEndIndexCall(p, k[1], k[2], "none")

SpecKeys == Init /\ [][NextKeys]_vars

\* SpecRetry: every caller appends one array to the one key and calls Append
\* again after an error; each call in progress goes on (weak fairness).
RetryArrays == DatapointArrays \ {<<>>}

NextRetry ==
  \/ OpenSqlStore("none")
  \/ \E p \in Procs, dp \in RetryArrays : RetryAppendGetEndIndex(p, Key[1], Key[2], dp)
  \/ \E p \in Procs : RetryAppendInsert(p)

SpecRetry ==
  /\ Init /\ [][NextRetry]_vars
  /\ WF_vars(OpenSqlStore("none"))
  /\ \A p \in Procs :
       /\ WF_vars(\E dp \in RetryArrays : RetryAppendGetEndIndex(p, Key[1], Key[2], dp))
       /\ WF_vars(RetryAppendInsert(p))

\* SpecFault: one caller on one key, with the faults of the database.
FaultIndexes == {-1, 0, 1}

\* The lists handed to WriteBatches: at most two batches for the key, some with
\* a stream name that GetStreamID rejects.
Batches == {Batch(s, Key[2], si, <<Datapoint(1)>>) : s \in {"1", "x"}, si \in {0, 1}}
BatchLists == SeqsUpTo(Batches, 2)

NextFault ==
  \/ OpenSqlStore("none")
  \/ \E f \in ExecFaults : ClearCall(Caller, f)
  \/ \E f \in ExecFaults : DeleteStreamCall(Caller, Key[1], f)
  \/ \E f \in ExecFaults : DeleteSubstreamCall(Caller, Key[1], Key[2], f)
  \/ \E si \in FaultIndexes, da \in RaceArrays, f \in ExecFaults :
       InsertCall(Caller, Key[1], Key[2], si, da, f)
  \/ \E dp \in RaceArrays, f \in EndIndexFaults : AppendGetEndIndex(Caller, Key[1], Key[2], dp, f)
  \/ \E f \in ExecFaults : AppendInsert(Caller, f)
  \/ \E f \in EndIndexFaults : GetEndIndexCall(Caller, Key[1], Key[2], f)
  \/ \E si \in FaultIndexes, f \in ReadFaults : GetByIndex(Caller, Key[1], Key[2], si, f)
  \/ \E t \in RaceTimes, f \in ReadFaults : GetByTime(Caller, Key[1], Key[2], t, f)
  \/ \E f \in EndIndexFaults : ReadGetEndIndex(Caller, f)
  \/ \E b \in BatchLists : WriteBatchesCall(Caller, b)
  \/ \E f \in ExecFaults : WriteBatches(Caller, f)

SpecFault == Init /\ [][NextFault]_vars

\* ================================================================ claims
\* What the claims speak of, stated on the rows themselves.
Payload(r) == [n \in 1..(Len(r.Data) - 2) |-> Datapoint(r.Data[n + 2])]
StartOf(r) == r.EndIndex - Len(Payload(r))
KeyEnd(id, sub) ==
  IF KeyRows(table, id, sub) = {} THEN 0
  ELSE CHOOSE e \in {r.EndIndex : r \in KeyRows(table, id, sub)} :
         \A r \in KeyRows(table, id, sub) : r.EndIndex <= e
\* the EndIndex of the batch before r, 0 if r is the first
PrevEnd(rows, r) ==
  IF {o \in rows : o.EndIndex < r.EndIndex} = {} THEN 0
  ELSE CHOOSE e \in {o.EndIndex : o \in rows} :
         /\ e < r.EndIndex
         /\ \A o \in rows : o.EndIndex < r.EndIndex => o.EndIndex <= e
\* the batches are contiguous from position 0
Contiguous(rows) ==
  \A r \in rows : Len(Payload(r)) >= 1 /\ StartOf(r) = PrevEnd(rows, r)

LastIs(op) == last.op = op /\ last.fault = "none"

\* ---- C1
\* C1 as claimed: of a racing pair of Appends on one key (both read the end
\* index before either inserts) at most one returns success, whatever the
\* lengths of the two arrays: an Append fails if an Append that raced it wrote
\* its batch.
C1_AtMostOneOfRacingPair ==
  (LastIs("Append") /\ last.rivalOk) => last.err # "nil"

\* C1 amended: of a racing pair of Appends on one key that read the same end
\* index and carry arrays of the same length, the second to insert is rejected
\* by the uniqueness constraint, as long as the first one's row is still stored.
C1_RacingPairSameEndIndex ==
  (LastIs("Append") /\ last.rivalSame) => last.err = "UniqueViolation"

C1_Witness ==
  /\ LastIs("Append") /\ last.rivalSame /\ last.err = "UniqueViolation"
  /\ \E r \in KeyRows(table, last.id, last.sub) : r.EndIndex = last.i + Len(last.dp)

\* ---- C2
\* C2 as claimed: in every reachable state the batches of each key are
\* contiguous from position 0, also when Appends to the key overlap.
C2_AlwaysContiguous ==
  \A k \in RaceKeys : Contiguous(KeyRows(table, k[1], k[2]))

\* C2 amended: the batches of a key stay contiguous from position 0 through
\* every step, except the Insert of an Append whose key another caller wrote
\* to (an Insert or a delete) between that Append's GetEndIndex and its Insert.
C2_ContiguousUnlessRaced ==
  [][\A k \in RaceKeys :
       (Contiguous(KeyRows(table, k[1], k[2])) /\ ~Contiguous(KeyRows(table', k[1], k[2])))
         => (last'.op = "Append" /\ last'.dirty /\ last'.err = "nil"
             /\ <<last'.id, last'.sub>> = k)]_vars

C2_Witness ==
  /\ LastIs("Append") /\ ~last.dirty /\ last.err = "nil"
  /\ Cardinality(KeyRows(table, last.id, last.sub)) >= 2
  /\ Contiguous(KeyRows(table, last.id, last.sub))

\* ---- C3
\* C3: an Append of a non-empty array that no other writer of the key overlaps
\* does not fail, and leaves GetEndIndex of the key at what it was before plus
\* the length of the array.
C3_SequentialAppend ==
  (LastIs("Append") /\ ~last.dirty /\ Len(last.dp) > 0)
    => /\ last.err = "nil"
       /\ KeyEnd(last.id, last.sub) = last.i + Len(last.dp)
       /\ GetEndIndex(table, last.id, last.sub, "none").ei > last.i

C3_Witness ==
  /\ LastIs("Append") /\ ~last.dirty /\ last.err = "nil" /\ last.i > 0
  /\ Cardinality(KeyRows(table, last.id, last.sub)) >= 2

\* ---- C4
\* C4: after a successful Insert(key, i, A) of a non-empty array at a valid
\* startIndex (one not below the end index of the key, as the next batch of the
\* key has to be), GetEndIndex(key) = i + length(A).
C4_InsertSetsEndIndex ==
  (LastIs("Insert") /\ last.err = "nil" /\ Len(last.da) > 0 /\ last.startindex >= last.before)
    => GetEndIndex(table, last.id, last.sub, "none").ei = last.startindex + Len(last.da)

C4_Witness ==
  /\ LastIs("Insert") /\ last.err = "nil" /\ last.startindex = last.before
  /\ last.before > 0 /\ Len(last.da) = MaxLen

\* ---- C5
\* the datapoints of a batch a read by time keeps
FromTime(da, t) == SelectSeq(da, LAMBDA d : d.Timestamp >= t)

\* C5 as claimed: a row whose decoded (for GetByTime: trimmed) array is longer
\* than the distance from the previous batch's EndIndex to its own makes
\* GetByIndex and GetByTime return ErrorDatabaseCorrupted, never a Range.
C5_LongRowIsReportedCorrupt ==
  LET rows == KeyRows(table, last.id, last.sub)
      len(r) == IF last.op = "GetByTime" THEN Len(FromTime(Payload(r), last.arg))
                ELSE Len(Payload(r))
  IN  (/\ last.op \in {"GetByIndex", "GetByTime"} /\ last.fault = "none"
       /\ \E r \in last.scanned : len(r) > r.EndIndex - PrevEnd(rows, r))
        => (last.err = "ErrorDatabaseCorrupted" /\ last.dr # "SqlRange")

\* C5 amended: a row, read and decoded without error, whose decoded (for
\* GetByTime: trimmed) array is longer than its EndIndex makes GetByIndex and
\* GetByTime return ErrorDatabaseCorrupted with an EmptyRange, the rows closed.
C5_RowLongerThanEndIndexIsCorrupt ==
  LET len(r) == IF last.op = "GetByTime" THEN Len(FromTime(Payload(r), last.arg))
                ELSE Len(Payload(r))
  IN  (/\ last.op \in {"GetByIndex", "GetByTime"} /\ last.fault = "none"
       /\ \E r \in last.scanned : len(r) > r.EndIndex)
        => (last.err = "ErrorDatabaseCorrupted" /\ last.dr = "EmptyRange"
            /\ last.rows = "closed")

C5_Witness ==
  /\ LastIs("GetByIndex") /\ last.err = "ErrorDatabaseCorrupted"
  /\ \E r \in last.scanned : Len(Payload(r)) > r.EndIndex /\ r \in table

\* ---- C6
\* C6 as claimed: after Close every statement that existed is released, the
\* clear-all statement included.
C6_CloseReleasesEveryStatement ==
  last.op = "Close" => \A x \in StmtNames : last.before[x] # "nil" => stmts[x] = "closed"

\* ---- C7
PosOf(x) == CHOOSE m \in 1..Len(StmtOrder) : StmtOrder[m] = x

\* C7: when construction fails at the ping or at the k-th statement, no store is
\* returned, no statement is left open, the statements before the k-th were
\* prepared and are closed, and the k-th and those after it do not exist (those
\* after it were never handed to db.Prepare).
C7_FailedConstructionLeavesNothingOpen ==
  (last.op = "OpenSqlStore" /\ last.fail # "none")
    => /\ last.ss = "nil" /\ last.err # "nil" /\ store = "failed"
       /\ \A x \in StmtNames : stmts[x] # "open"
       /\ last.fail = "ping" => (last.called = {} /\ \A x \in StmtNames : stmts[x] = "nil")
       /\ last.fail \in StmtNames =>
            \A m \in 1..Len(StmtOrder) :
              /\ m < PosOf(last.fail) => (stmts[StmtOrder[m]] = "closed" /\ StmtOrder[m] \in last.called)
              /\ m = PosOf(last.fail) => (stmts[StmtOrder[m]] = "nil" /\ StmtOrder[m] \in last.called)
              /\ m > PosOf(last.fail) => (stmts[StmtOrder[m]] = "nil" /\ StmtOrder[m] \notin last.called)

C7_Witness ==
  /\ last.op = "OpenSqlStore" /\ last.fail = "delstream" /\ store = "failed"
  /\ stmts["delsubstream"] = "closed" /\ stmts["clearall"] = "nil"

\* ---- C8
\* the batch of contiguous rows that holds the position i
BatchAt(rows, i) == CHOOSE r \in rows : StartOf(r) <= i /\ i < r.EndIndex
DatapointAt(rows, i) == Payload(BatchAt(rows, i))[i - StartOf(BatchAt(rows, i)) + 1]

\* C8: on a key whose batches are contiguous from 0 up to E, GetByIndex(key, i)
\* with 0 <= i < E returns a cursor-backed Range and the index i; the Range's
\* first array is the rest of the batch that holds position i, from i on.
C8_GetByIndexStartsAtIndex ==
  LET rows == KeyRows(table, last.id, last.sub)
      b == BatchAt(rows, last.arg)
  IN  (/\ LastIs("GetByIndex") /\ Contiguous(rows)
       /\ 0 <= last.arg /\ last.arg < KeyEnd(last.id, last.sub))
        => /\ last.dr = "SqlRange" /\ last.err = "nil" /\ last.index = last.arg
           /\ Len(last.da) >= 1 /\ last.da[1] = DatapointAt(rows, last.arg)
           /\ last.da = SubSeq(Payload(b), last.arg - StartOf(b) + 1, Len(Payload(b)))

C8_Witness ==
  LET rows == KeyRows(table, last.id, last.sub)
  IN  /\ LastIs("GetByIndex") /\ Contiguous(rows) /\ Cardinality(rows) = 2
      /\ last.dr = "SqlRange" /\ last.index = last.arg
      /\ StartOf(BatchAt(rows, last.arg)) > 0
      /\ StartOf(BatchAt(rows, last.arg)) < last.arg

\* ---- C9
\* C9: GetByTime(key, t) reads the batch with the smallest EndTime above t (none:
\* EmptyRange); what it returns from it are the batch's datapoints of timestamp
\* >= t, one of timestamp t included, with the index EndIndex minus their number.
C9_GetByTimeTrimsFirstBatch ==
  LET rows == KeyRows(table, last.id, last.sub)
      later == {r \in rows : r.EndTime > last.arg}
  IN  LastIs("GetByTime")
        => /\ later = {} => (last.dr = "EmptyRange" /\ last.scanned = {})
           /\ later # {} =>
                \E r \in last.scanned :
                  /\ r \in later /\ \A o \in later : r.EndTime <= o.EndTime
                  /\ last.dr = "SqlRange" \/ last.err = "ErrorDatabaseCorrupted"
                  /\ last.dr = "SqlRange" =>
                       /\ last.da = FromTime(Payload(r), last.arg)
                       /\ last.index = r.EndIndex - Len(last.da)

C9_Witness ==
  /\ LastIs("GetByTime") /\ last.dr = "SqlRange"
  /\ Cardinality(KeyRows(table, last.id, last.sub)) = 2
  /\ last.da[1].Timestamp = last.arg
  /\ \E r \in last.scanned : r.EndIndex < KeyEnd(last.id, last.sub)

\* ---- C10
\* C10: a GetByIndex or GetByTime that no writer of the key overlaps and that no
\* stored batch matches (in particular: the key holds no batch) returns an
\* EmptyRange, no error and the index GetEndIndex(key), 0 for a key without data.
C10_NoMatchReturnsEndIndex ==
  LET rows == KeyRows(table, last.id, last.sub)
      nomatch == IF last.op = "GetByIndex"
                   THEN \A r \in rows : r.EndIndex <= last.arg
                   ELSE \A r \in rows : r.EndTime <= last.arg
  IN  (/\ last.op \in {"GetByIndex", "GetByTime"} /\ last.fault = "none"
       /\ ~last.dirty /\ nomatch)
        => /\ last.dr = "EmptyRange" /\ last.err = "nil"
           /\ last.index = KeyEnd(last.id, last.sub)
           /\ rows = {} => last.index = 0

C10_Witness ==
  /\ last.op \in {"GetByIndex", "GetByTime"} /\ last.fault = "none" /\ ~last.dirty
  /\ last.dr = "EmptyRange" /\ last.index = 0
  /\ KeyRows(table, last.id, last.sub) = {} /\ table # {}

\* ---- C11
\* C11: when DeleteStream(id) has returned without error, GetEndIndex(id, s) is 0
\* for every substream s, the substreams that held batches before the call
\* included, and no batch of the stream is left.
C11_DeleteStreamEmptiesEverySubstream ==
  (last.op = "DeleteStream" /\ last.err = "nil")
    => /\ \A k \in ManyKeys :
            k[1] = last.id => GetEndIndex(table, k[1], k[2], "none") = [ei |-> 0, err |-> "nil"]
       /\ \A r \in table : r.StreamId # last.id

C11_Witness ==
  /\ last.op = "DeleteStream" /\ last.err = "nil"
  /\ last.removed = {k \in ManyKeys : k[1] = last.id}
  /\ Cardinality(last.removed) = 2

\* ---- C12
\* C12: GetEndIndex of a key that holds no rows (never written, or emptied by
\* DeleteSubstream, DeleteStream or Clear) returns 0 and no error, ErrWTF or
\* other, whenever its query ran and was read without a fault of the database.
C12_EmptyKeyEndIndexIsZero ==
  (/\ last.op = "GetEndIndex" /\ last.fault = "none"
   /\ KeyRows(table, last.id, last.sub) = {})
    => (last.ei = 0 /\ last.err = "nil")

C12_Witness ==
  /\ last.op = "GetEndIndex" /\ last.fault = "none"
  /\ last.after = "DeleteSubstream" /\ KeyRows(table, last.id, last.sub) = {}
  /\ last.ei = 0

\* ---- C13
\* the row a batch is stored as
RowOf(b) ==
  [StreamId |-> StreamIDs[b.Stream], Substream |-> b.Substream,
   EndTime |-> b.Data[Len(b.Data)].Timestamp, EndIndex |-> b.StartIndex + Len(b.Data),
   Version |-> insertversion, Data |-> <<insertversion, Len(b.Data)>> \o
                                       [n \in 1..Len(b.Data) |-> b.Data[n].Timestamp]]

\* C13: WriteBatches(b) takes the batches in the order of the list and stops at
\* the first that fails, batch k: it returns the error of that batch, the
\* batches before k are stored and stay stored, the batches after k are never
\* tried; when none fails it returns nil and all are stored. (The table is
\* looked at when the call has returned and no other call has begun.)
C13_WriteBatchesStopsAtFirstFailure ==
  last.op = "WriteBatches"
    => LET k == Len(last.log)
       IN  /\ k <= Len(last.b)
           /\ \A n \in 1..(k - 1) : last.log[n] = "nil"
           /\ last.err = IF k = 0 THEN "nil" ELSE last.log[k]
           /\ last.err = "nil" => k = Len(last.b)
           /\ \A n \in 1..k :
                /\ last.log[n] = "StreamIDError" <=> last.b[n].Stream \notin DOMAIN StreamIDs
                /\ last.log[n] = "UniqueViolation" =>
                     \E r \in last.before \cup {RowOf(last.b[m]) : m \in 1..(n - 1)} :
                       /\ r.StreamId = RowOf(last.b[n]).StreamId
                       /\ r.Substream = RowOf(last.b[n]).Substream
                       /\ r.EndIndex = RowOf(last.b[n]).EndIndex
           /\ (\A p \in Procs : pc[p] = "idle") =>
                table = last.before \cup
                          {RowOf(last.b[n]) : n \in {m \in 1..k : last.log[m] = "nil"}}

C13_Witness ==
  /\ last.op = "WriteBatches" /\ Len(last.b) = 2 /\ Len(last.log) = 2
  /\ \A p \in Procs : pc[p] = "idle"
  /\ last.err = "ExecError"
  /\ last.before = {} /\ table = {RowOf(last.b[1])}
  /\ last.b[2].StartIndex < last.b[1].StartIndex

\* ---- C14
\* the keys the call recorded in `rec` is allowed to change
Touches(rec, k) ==
  CASE rec.op \in {"Insert", "Append", "DeleteSubstream"} -> k = <<rec.id, rec.sub>>
    [] rec.op = "DeleteStream" -> k[1] = rec.id
    [] rec.op = "Clear" -> TRUE
    [] OTHER -> FALSE

\* C14: whatever the interleaving of two callers, a step that changes the table
\* is a statement of Insert, Append, DeleteSubstream, DeleteStream or Clear, and
\* it adds, removes or alters rows of its own key only (DeleteStream: of the
\* keys of its stream only); for every other key the rows, and so what
\* GetEndIndex and the queries of GetByIndex and GetByTime read, are the same
\* before and after.
C14_OtherKeysUnchanged ==
  [][table' # table =>
       /\ \A r \in (table \ table') \cup (table' \ table) :
            Touches(last', <<r.StreamId, r.Substream>>)
       /\ \A k \in ManyKeys :
            ~Touches(last', k) =>
              /\ KeyRows(table', k[1], k[2]) = KeyRows(table, k[1], k[2])
              /\ GetEndIndex(table', k[1], k[2], "none") = GetEndIndex(table, k[1], k[2], "none")
              /\ \A i \in StartIndexes :
                   indexquery(table', k[1], k[2], i) = indexquery(table, k[1], k[2], i)
              /\ \A t \in QueryTimes :
                   timequery(table', k[1], k[2], t) = timequery(table, k[1], k[2], t)]_vars

C14_Witness ==
  /\ last.op = "DeleteSubstream" /\ last.err = "nil"
  /\ last.removed = {<<last.id, last.sub>>}
  /\ \E r \in table : r.StreamId = last.id /\ r.Substream # last.sub
  /\ \E p \in Procs : pc[p] = "Append"

\* ---- C15
Max(a, b) == IF a >= b THEN a ELSE b

\* C15: GetByIndex(key, i) that returns a Range has read the batch of smallest
\* EndIndex above i; with tail = EndIndex - i, the first array of the Range is
\* the last tail datapoints of the batch when tail is less than their number,
\* else all of them; the index returned is EndIndex minus the length of that
\* array, which is the larger of i and the position the batch starts at.
C15_GetByIndexSlicesTail ==
  (LastIs("GetByIndex") /\ last.dr = "SqlRange")
    => \E r \in last.scanned :
         LET n == Len(Payload(r))
             tail == r.EndIndex - last.arg
         IN  /\ r \in KeyRows(table, last.id, last.sub) /\ r.EndIndex > last.arg
             /\ \A o \in KeyRows(table, last.id, last.sub) :
                  o.EndIndex > last.arg => r.EndIndex <= o.EndIndex
             /\ tail < n => last.da = SubSeq(Payload(r), n - tail + 1, n)
             /\ tail >= n => last.da = Payload(r)
             /\ last.index = r.EndIndex - Len(last.da)
             /\ last.index = Max(last.arg, StartOf(r))

C15_Witness ==
  /\ LastIs("GetByIndex") /\ last.dr = "SqlRange"
  /\ \E r \in last.scanned :
       /\ Len(Payload(r)) = 2 /\ r.EndIndex - last.arg = 1
       /\ Payload(r)[1] # Payload(r)[2]
       /\ last.da = <<Payload(r)[2]>> /\ last.index = last.arg

\* ---- C16
\* the rows the query of the read recorded in `last` matches
Matching ==
  IF last.op = "GetByIndex" THEN indexquery(table, last.id, last.sub, last.arg)
  ELSE timequery(table, last.id, last.sub, last.arg)

\* C16: what GetByIndex and GetByTime return tells the outcomes apart. A
\* cursor-backed Range comes with a nil error only; a row the codec fails on
\* gives the codec's error, not ErrorDatabaseCorrupted, and no cursor-backed
\* Range; ErrorDatabaseCorrupted comes exactly for a decoded (trimmed) array
\* longer than the EndIndex; EmptyRange with a nil error comes exactly when no
\* row matches; an error of the row iteration met before any row was read is
\* returned as the error, not as "no data".
C16_OutcomesAreDistinct ==
  LET len(r) == IF last.op = "GetByTime" THEN Len(FromTime(Payload(r), last.arg))
                ELSE Len(Payload(r))
  IN  last.op \in {"GetByIndex", "GetByTime"}
        => /\ last.dr = "SqlRange" => (last.err = "nil" /\ last.rows = "range")
           /\ last.fault = "decode" =>
                (last.err = "EncodingError" /\ last.dr = "EmptyRange" /\ last.scanned # {})
           /\ last.err = "ErrorDatabaseCorrupted" <=>
                (last.fault = "none" /\ \E r \in last.scanned : len(r) > r.EndIndex)
           /\ (last.dr = "EmptyRange" /\ last.err = "nil") <=>
                (last.fault = "none" /\ last.scanned = {})
           /\ (last.dr = "EmptyRange" /\ last.err = "nil" /\ \A p \in Procs : pc[p] = "idle")
                => Matching = {}
           /\ last.fault = "iter" => (last.err = "IterError" /\ last.dr = "EmptyRange")

C16_Witness ==
  /\ last.op \in {"GetByIndex", "GetByTime"} /\ last.fault = "iter"
  /\ last.err = "IterError" /\ last.dr = "EmptyRange"
  /\ Matching # {}

\* ---- C17
\* C17 as claimed: when GetByIndex(key, i) returns an EmptyRange and the index
\* s, no batch of the key stored at that moment has its EndIndex in (i, s]
\* (GetByTime(key, t): no stored batch with EndTime above t ends at or below
\* s), also when an Append to the key completes between the read's query and
\* its GetEndIndex: a reader that goes on from s has skipped nothing.
C17_EmptyRangeSkipsNoBatch ==
  (/\ last.op \in {"GetByIndex", "GetByTime"} /\ last.fault = "none"
   /\ last.dr = "EmptyRange" /\ last.err = "nil")
    => \A r \in KeyRows(table, last.id, last.sub) :
         IF last.op = "GetByIndex"
           THEN ~(last.arg < r.EndIndex /\ r.EndIndex <= last.index)
           ELSE ~(last.arg < r.EndTime /\ r.EndIndex <= last.index)

\* ---- C18
\* C18 as claimed, for GetByTime and GetByIndex: on every return that does not
\* hand the rows of the query to the caller inside a cursor-backed Range (no
\* row, failed Scan, failed decode, corruption) the rows have been closed, so
\* no failing call leaves an open result set behind.
C18_FailedReadsCloseTheirRows ==
  (last.op \in {"GetByIndex", "GetByTime"} /\ last.dr # "SqlRange")
    => last.rows = "closed"

\* ---- C19
AllDone == \A p \in Procs : pc[p] = "done"

RECURSIVE SumOfLengths(_)
SumOfLengths(S) ==
  IF S = {} THEN 0
  ELSE LET p == CHOOSE q \in S : TRUE
       IN  Len(frame[p].dp) + SumOfLengths(S \ {p})

\* C19 as claimed: with every caller calling Append again after a write error,
\* under weak fairness the Append of every caller succeeds in the end, and once
\* all have succeeded GetEndIndex(key) is the sum of the lengths of the arrays.
C19_AllSucceedAndEndIndexIsSum ==
  /\ <>AllDone
  /\ [](AllDone => GetEndIndex(table, Key[1], Key[2], "none").ei = SumOfLengths(Procs))

\* C19 amended: under weak fairness the Append of every caller succeeds in the
\* end; once all have succeeded GetEndIndex(key) is at most the sum of the
\* lengths of the arrays, and it is that sum when the arrays all have the same
\* length (Appends of different lengths that overlap are both stored, on the
\* same positions).
C19_AllSucceedAndEndIndexAtMostSum ==
  /\ <>AllDone
  /\ [](AllDone =>
         /\ GetEndIndex(table, Key[1], Key[2], "none").ei <= SumOfLengths(Procs)
         /\ (\A p, q \in Procs : Len(frame[p].dp) = Len(frame[q].dp))
              => GetEndIndex(table, Key[1], Key[2], "none").ei = SumOfLengths(Procs))

C19_Witness ==
  /\ AllDone
  /\ \A p, q \in Procs : Len(frame[p].dp) = Len(frame[q].dp)
  /\ \E p \in Procs : frame[p].again
  /\ GetEndIndex(table, Key[1], Key[2], "none").ei = SumOfLengths(Procs)
  /\ Cardinality(table) = Cardinality(Procs)

\* ---- C20
\* C20: whenever GetByTime or GetByIndex returns a cursor-backed Range, the
\* array it holds decoded is not empty and the index returned is at least 0
\* and below the EndIndex of the batch the array comes from; a matched row of
\* no datapoints (decoded, or after the trim) is never returned as a Range.
C20_RangeHoldsDatapoints ==
  (last.op \in {"GetByIndex", "GetByTime"} /\ last.dr = "SqlRange")
    => /\ Len(last.da) >= 1
       /\ last.index >= 0
       /\ Cardinality(last.scanned) = 1
       /\ \A r \in last.scanned :
            /\ last.index < r.EndIndex
            /\ Len(Payload(r)) >= 1
            /\ last.op = "GetByTime" => Len(FromTime(Payload(r), last.arg)) >= 1

C20_Witness ==
  /\ LastIs("GetByTime") /\ last.dr = "SqlRange" /\ Len(last.da) = 1
  /\ \E r \in last.scanned :
       /\ Len(Payload(r)) = 2 /\ r.EndIndex = 2 /\ last.index = 1
       /\ Payload(r)[1].Timestamp < last.arg

====
